---- MODULE Spec2Model ----
(***************************************************************************)
(* hardcover-rss: the FastAPI service of src/app/main.py as a state        *)
(* machine.  The service runs on one asyncio event loop: a handler runs    *)
(* atomically from one await to the next, so every action below is one     *)
(* such segment of one task.  State shared by the tasks: the in-memory     *)
(* registry `users` (main.py:32), the Redis snapshot keys books:<name> and  *)
(* user keys user:<name> (utils/cache.py: redis_books, redis_users) and    *)
(* the life cycle of the application, app_state:                           *)
(* "created" until startup_event has run, "running" while the scheduler    *)
(* runs and requests are served, "shutdown" after shutdown_event.          *)
(* redis_up tells whether the Redis server answers; scheduler is the       *)
(* Scheduler object of utils/scheduler.py.  probe holds one call of        *)
(* refresh_user_data run on its own, with the upstream answers it was      *)
(* given (specification FetchSpec).                                        *)
(*                                                                         *)
(* Specifications: Spec is the service with Redis reachable; OutageSpec    *)
(* adds Redis outages; SchedulerSpec is the running service with the       *)
(* operations of Scheduler called in any order; FetchSpec applies          *)
(* refresh_user_data to every combination of upstream answers; CacheSpec   *)
(* calls the methods of Cache in any order; CodecSpec writes a book list   *)
(* to the cache and reads it back; ParseSpec applies the data-page parse   *)
(* of fetch_user_want_to_read_xhr to every page; RaceSpec runs refreshes   *)
(* of one identity in any interleaving.  In these, probe holds what the    *)
(* specification observes of the calls it makes.                           *)
(***************************************************************************)
EXTENDS Integers, Sequences, FiniteSets, TLC

VARIABLES users, redis_books, redis_users, redis_up, tasks, app_state,
          scheduler, probe

vars ==
    <<users, redis_books, redis_users, redis_up, tasks, app_state, scheduler,
      probe>>

(* ---------------------------------------------------------------- bounds *)
NTasks == 2          \* concurrent asyncio tasks (requests, jobs) in flight
MaxBooks == 2        \* longest upstream want-to-read list
ElapseStep == 900    \* seconds that pass in one Elapse step

(* ------------------------------------------------------------- constants *)
cache_ttl == 1800    \* Settings.cache_ttl

Usernames == {"alice", "bob"}
Tasks == 1..NTasks

(* Optional values: None, or Some(x) as a one-element sequence.            *)
None == <<>>
Some(x) == <<x>>

(* The upstream want-to-read lists, newest entry first: <<>>, <<1>>,       *)
(* <<2, 1>>, ...  A book is named by its upstream id.                      *)
UpstreamLists == {[i \in 1..n |-> n - i + 1] : n \in 0..MaxBooks}

(* What one upstream request yields: None (unreachable, non-200, malformed *)
(* document) or Some(list of entries).                                     *)
Payloads == {None} \cup {Some(l) : l \in UpstreamLists}

(* ---------------------------------------------------------------- models *)
(* Book (scraper/models.py): the attributes a Book instance has.           *)
BookFields ==
    {"id", "title", "author", "cover_image_url", "description", "isbn",
     "published_year", "page_count", "average_rating", "date_added",
     "user_rating", "user_review"}

(* HardcoverAPI.__init__: the attributes a HardcoverAPI instance has.      *)
HardcoverAPIAttrs == {"api_url", "api_token", "headers"}

(* -------------------------------------------------------------- registry *)
(* `users` is a dict: its keys in insertion order.                         *)
Registered == {users[i] : i \in DOMAIN users}

(* users[username] = user_info                                             *)
UsersSet(us, u) ==
    IF \E i \in DOMAIN us : us[i] = u THEN us ELSE Append(us, u)

(* del users[username]                                                     *)
UsersDel(us, u) == SelectSeq(us, LAMBDA x : x # u)

(* f"/feed/{username}"                                                     *)
feed_url(u) == <<"/feed/", u>>

(* list_users: one UserResponse per value of `users`.                      *)
list_users(us) ==
    [i \in DOMAIN us |-> [username |-> us[i], feed_url |-> feed_url(us[i])]]

(* list_feeds: one dict per item of `users`.                               *)
list_feeds(us) ==
    [i \in DOMAIN us |-> [username |-> us[i], feed_url |-> feed_url(us[i])]]

(* ----------------------------------------------------------------- cache *)
NoEntry == [data |-> None, ttl |-> 0]

(* The time to live Redis reports for a key written by SET without expiry. *)
NoExpiry == -1

(* The Redis client exists from startup on (Cache.connect), so that        *)
(* _ensure_connected passes; when the server does not answer (up is        *)
(* FALSE), the command raises inside the method's try block and the        *)
(* except clause logs the error.                                           *)

(* Cache.get_book_list: the value under books:<username>, None if absent   *)
(* or if the GET fails.                                                    *)
get_book_list(up, store, u) == IF up THEN store[u].data ELSE None

set_book_list_short(up, store, u, l, ttl) ==
    IF up THEN [store EXCEPT ![u] = [data |-> Some(l), ttl |-> ElapseStep]]
    ELSE store

(* Cache.set_book_list: SETEX books:<username> ttl value; nothing is       *)
(* written if the SETEX fails.                                             *)
set_book_list(up, store, u, l, ttl) ==
    IF up THEN [store EXCEPT ![u] = [data |-> Some(l), ttl |-> ttl]]
    ELSE store

(* Whether an exception leaves Cache.set_book_list: never, the except      *)
(* clause ends with the log line and the method returns None as it does    *)
(* after a write.                                                          *)
set_book_list_raises(up) == FALSE

(* Cache.remove_user: DEL books:<username> (and the user:<username> key);  *)
(* nothing is deleted if the DEL fails.                                    *)
remove_user_keys(up, store, u) ==
    IF up THEN [store EXCEPT ![u] = NoEntry] ELSE store

(* The user data stored under user:<username>: one dict per username.      *)
user_data(u) == [username |-> u]

(* Cache.set_user_data's default ttl.                                      *)
user_data_ttl == 3600

(* Cache.set_user_data: SETEX user:<username> ttl value; nothing is        *)
(* written if the SETEX fails.                                             *)
set_user_data(up, store, u, ttl) ==
    IF up THEN [store EXCEPT ![u] = [data |-> Some(user_data(u)), ttl |-> ttl]]
    ELSE store

(* Cache.store_user_persistent: SET user:<username> value, no expiry;      *)
(* nothing is written if the SET fails.                                    *)
store_user_persistent(up, store, u) ==
    IF up
    THEN [store EXCEPT ![u] = [data |-> Some(user_data(u)), ttl |-> NoExpiry]]
    ELSE store

(* Cache.get_all_users: the usernames of the keys user:*, [] if the KEYS   *)
(* command fails.                                                          *)
get_all_users(up, store) ==
    IF up THEN {u \in Usernames : store[u].data # None} ELSE {}

clear_cache_first(up, store) ==
    IF up THEN [store EXCEPT !["alice"] = NoEntry] ELSE store

(* Cache.clear_cache: DEL of the keys books:*; the keys user:* stay.       *)
(* Nothing is deleted if a command fails.                                  *)
clear_cache(up, store) ==
    IF up THEN [u \in Usernames |-> NoEntry] ELSE store

(* CacheManager, the wrapper main.py calls.                                *)
get_user_book_list(up, store, u) == get_book_list(up, store, u)

set_user_book_list(up, store, u, l) == set_book_list(up, store, u, l, cache_ttl)

set_user_book_list_raises(up) == set_book_list_raises(up)

invalidate_user_cache(up, store, u) == remove_user_keys(up, store, u)

(* ------------------------------------------------------------- scheduler *)
(* Scheduler.__init__: the AsyncIOScheduler is not running and has no job. *)
(* state is the state of the AsyncIOScheduler, jobs the ids in self.jobs,  *)
(* last the method of Scheduler called last, before the state it was       *)
(* called in, raised whether that call raised to its caller.               *)
NewScheduler ==
    [state |-> "stopped", jobs |-> {}, last |-> "none",
     before |-> "stopped", raised |-> FALSE]

(* AsyncIOScheduler.start raises SchedulerAlreadyRunningError when it is   *)
(* running, AsyncIOScheduler.shutdown raises SchedulerNotRunningError when *)
(* it is not.                                                              *)
aps_start(s) ==
    IF s.state = "running" THEN [s EXCEPT !.raised = TRUE]
    ELSE [s EXCEPT !.state = "running", !.raised = FALSE]

aps_shutdown(s) ==
    IF s.state = "stopped" THEN [s EXCEPT !.raised = TRUE]
    ELSE [s EXCEPT !.state = "stopped", !.raised = FALSE]

start_unguarded(s) ==
    [aps_start(s) EXCEPT !.last = "start", !.before = s.state]

(* Scheduler.start: the except clause logs what AsyncIOScheduler.start     *)
(* raises.                                                                 *)
start(s) ==
    [aps_start(s) EXCEPT !.last = "start", !.before = s.state,
                         !.raised = FALSE]

(* Scheduler.stop: the except clause logs what shutdown raises.            *)
stop(s) ==
    [aps_shutdown(s) EXCEPT !.last = "stop", !.before = s.state,
                            !.raised = FALSE]

(* Scheduler.add_refresh_job: add_job(..., id=job_id,                      *)
(* replace_existing=True).                                                 *)
add_refresh_job(s, job_id) ==
    [s EXCEPT !.jobs = @ \cup {job_id}, !.last = "add_refresh_job",
              !.before = s.state, !.raised = FALSE]

(* Scheduler.remove_job: nothing when the id is not in self.jobs.          *)
remove_job(s, job_id) ==
    [s EXCEPT !.jobs = @ \ {job_id}, !.last = "remove_job",
              !.before = s.state, !.raised = FALSE]

job_due_when_stopped(s, job_id) == job_id \in s.jobs

(* The interval trigger of a job fires only while the AsyncIOScheduler is  *)
(* running.                                                                *)
job_due(s, job_id) == s.state = "running" /\ job_id \in s.jobs

(* --------------------------------------------------------------- fetcher *)
(* HardcoverAPI.fetch_user_want_to_read_xhr: None when the request fails   *)
(* or the page holds no books, else one Book per entry in page order.      *)
fetch_user_want_to_read_xhr(p) ==
    IF p = None THEN None
    ELSE IF p[1] = <<>> THEN None
    ELSE Some(p[1])

graphql_fallback_with_client(g) == IF g = None THEN None ELSE Some(g[1])

(* The GraphQL fallback of get_user_want_to_read: self.client and          *)
(* self.graphql_url are read inside the try block; a missing attribute     *)
(* raises AttributeError, which the except clause turns into None.         *)
graphql_fallback(g) ==
    IF ~({"client", "graphql_url"} \subseteq HardcoverAPIAttrs) THEN None
    ELSE IF g = None THEN None
    ELSE Some(g[1])

(* The strategies of the fallback whose request goes out: the GraphQL POST *)
(* is sent only if evaluating self.client.post(self.graphql_url, ...) does *)
(* not raise.                                                              *)
graphql_requests ==
    IF {"client", "graphql_url"} \subseteq HardcoverAPIAttrs
    THEN <<"graphql">> ELSE <<>>

get_user_want_to_read_inverted(p, g) ==
    LET result == fetch_user_want_to_read_xhr(p)
    IN  IF result = None THEN [result |-> result, tried |-> <<"xhr">>]
        ELSE [result |-> graphql_fallback(g),
              tried |-> <<"xhr">> \o graphql_requests]

(* HardcoverAPI.get_user_want_to_read: XHR first, GraphQL when it is None. *)
(* result is what the method returns, tried the strategies whose upstream  *)
(* request it has sent, in order.                                          *)
get_user_want_to_read_trace(p, g) ==
    LET result == fetch_user_want_to_read_xhr(p)
    IN  IF result # None THEN [result |-> result, tried |-> <<"xhr">>]
        ELSE [result |-> graphql_fallback(g),
              tried |-> <<"xhr">> \o graphql_requests]

get_user_want_to_read(p, g) == get_user_want_to_read_trace(p, g).result

(* What the upstream answers to get_user_info: the user, no such user, or  *)
(* nothing usable (unreachable, non-200, GraphQL errors).                  *)
InfoAnswers == {"user", "no_user", "unreachable"}

(* HardcoverAPI.get_user_info: TRUE when it returns a User, FALSE when it  *)
(* returns None.                                                           *)
get_user_info(info) == info = "user"

(* ------------------------------------------------------------------ feed *)
(* RSSFeedGenerator.generate_feed: TRUE when an RSS document comes back,   *)
(* FALSE when it returns "".  For each book it reads book.author_name,     *)
(* book.book_id and book.book_description; reading an attribute a Book     *)
(* does not have raises AttributeError, caught by the except clause.       *)
generate_feed(l) ==
    \/ Len(l) = 0
    \/ {"title", "id", "book_description", "description", "author_name",
        "book_id", "cover_image_url", "isbn", "date_added",
        "average_rating", "published_year", "page_count"} \subseteq BookFields

(* ----------------------------------------------------------------- tasks *)
(* A response: the HTTP status and, for an HTTPException, which detail.    *)
Resp(status, detail) == [status |-> status, detail |-> detail]

NoResp == Resp(0, "")
Ok == Resp(200, "ok")
NotOnHardcover == Resp(404, "not_on_hardcover")    \* main.py:142
NotFound == Resp(404, "not_found")                 \* main.py:85, 188, 207, 242
NoData == Resp(404, "no_data")                     \* main.py:91
FeedError == Resp(500, "feed_error")               \* main.py:220
NoUsers == Resp(400, "no_users")                   \* main.py:254
RefreshError == Resp(500, "refresh_error")         \* main.py:103
Cancelled == Resp(0, "cancelled")                  \* asyncio.CancelledError

(* A task: the operation it runs, the username at hand, the await it is    *)
(* suspended at, user_book_list (lst) and where it came from (src: "cache" *)
(* or "fetch"), isnew (add_user put a new key in users), the usernames     *)
(* refresh_all_users has still to visit, the usernames it has logged as    *)
(* "Failed to refresh user" (main.py:116), and the response when done.     *)
IdleTask ==
    [op |-> "none", user |-> "-", pc |-> "idle", lst |-> None,
     src |-> "none", isnew |-> FALSE, queue |-> <<>>, failed |-> <<>>,
     resp |-> NoResp]

(* A task that has ended: resp is the response of a request handler, or    *)
(* the HTTPException leaving a background task (Ok when none).             *)
Finished(r, resp, l, src) ==
    [r EXCEPT !.pc = "done", !.resp = resp, !.lst = l, !.src = src,
              !.queue = <<>>]

Begin(op, u, pc) == [IdleTask EXCEPT !.op = op, !.user = u, !.pc = pc]

(* refresh_user_data up to its first await: get_user_info when the user is *)
(* not in memory, else the fetch.                                          *)
refresh_user_data(r, us, u) ==
    [r EXCEPT !.user = u, !.lst = None, !.src = "none",
              !.pc = IF u \notin {us[i] : i \in DOMAIN us}
                     THEN "r_info" ELSE "r_fetch"]

(* The loop of refresh_all_users: the next username, or the end.           *)
sweep_next(r, us) ==
    IF r.queue = <<>> THEN Finished(r, Ok, None, "none")
    ELSE refresh_user_data([r EXCEPT !.queue = Tail(r.queue)], us,
                           Head(r.queue))

(* refresh_all_users up to its first await: list(users.keys()).            *)
refresh_all_users(r, us) == sweep_next([r EXCEPT !.queue = us], us)

(* get_user_feed after user_book_list is known: generate the feed.         *)
feed_response(r, l, src) ==
    IF generate_feed(l) THEN Finished(r, Ok, Some(l), src)
    ELSE Finished(r, FeedError, Some(l), src)

(* refresh_user_data returned l to its caller.                             *)
refresh_returned(r, us, l) ==
    CASE r.op = "add_user" -> Finished(r, Ok, Some(l), "fetch")
      [] r.op = "get_user_feed" -> feed_response(r, l, "fetch")
      [] r.op = "refresh_user_feed" -> Finished(r, Ok, Some(l), "fetch")
      [] OTHER -> [r EXCEPT !.pc = "sleep", !.lst = None, !.src = "none"]

refresh_raised_aborts(r, us, resp) == Finished(r, resp, None, "none")

(* refresh_user_data raised HTTPException(resp) to its caller: a handler   *)
(* or background task ends with it; refresh_all_users catches it, logs     *)
(* the username and goes on with the loop.                                 *)
refresh_raised(r, us, resp) ==
    CASE r.op \in {"add_user", "get_user_feed", "refresh_user_feed"} ->
             Finished(r, resp, None, "none")
      [] OTHER -> sweep_next([r EXCEPT !.failed = Append(@, r.user)], us)

(* The scheduled jobs that are running: started and not yet ended.         *)
InFlightJobs(ts) ==
    {t \in Tasks : ts[t].op = "job" /\ ts[t].pc \notin {"idle", "done"}}

(* What self.scheduler.shutdown() does to the running jobs when the        *)
(* AsyncIOScheduler is running: its executor cancels the pending futures   *)
(* of coroutine jobs, so the jobs in `cancel` (those that have not ended   *)
(* by then) end with CancelledError at the await they are suspended at;    *)
(* CancelledError is not an Exception, the except clause of                *)
(* refresh_all_users lets it through.                                      *)
shutdown_jobs(s, ts, cancel) ==
    IF s.state = "stopped" THEN ts
    ELSE [t \in Tasks |->
             IF t \in cancel THEN Finished(ts[t], Cancelled, None, "none")
             ELSE ts[t]]

(* ----------------------------------------------------------------- probe *)
(* One call of refresh_user_data(ProbeUser) run on its own: registered     *)
(* tells whether the username is in `users` at the call, info, p and g are *)
(* the upstream answers to get_user_info, to the XHR request and to the    *)
(* GraphQL request; task is the call, reg the registry it works on, tried  *)
(* the strategies whose request get_user_want_to_read has sent.            *)
ProbeUser == "alice"

NoProbe ==
    [stage |-> "none", registered |-> FALSE, info |-> "user", p |-> None,
     g |-> None, task |-> IdleTask, reg |-> <<>>, tried |-> <<>>]

ProbeCall(registered, info, p, g) ==
    LET reg == IF registered THEN <<ProbeUser>> ELSE <<>>
    IN  [stage |-> "call", registered |-> registered, info |-> info,
         p |-> p, g |-> g, reg |-> reg, tried |-> <<>>,
         task |-> refresh_user_data(
                      Begin("refresh_user_feed", ProbeUser, "background"),
                      reg, ProbeUser)]

ProbeStage(r) == IF r.pc = "done" THEN "done" ELSE "call"

TypeOK ==
    /\ users \in Seq(Usernames)
    /\ DOMAIN redis_books = Usernames
    /\ DOMAIN redis_users = Usernames
    /\ redis_up \in BOOLEAN
    /\ DOMAIN tasks = Tasks
    /\ app_state \in {"created", "running", "shutdown"}
    /\ scheduler.state \in {"stopped", "running"}

Init ==
    /\ users = <<>>
    /\ redis_books = [u \in Usernames |-> NoEntry]
    /\ redis_users = [u \in Usernames |-> NoEntry]
    /\ redis_up = TRUE
    /\ tasks = [t \in Tasks |-> IdleTask]
    /\ app_state = "created"
    /\ scheduler = NewScheduler
    /\ probe = NoProbe

(* --------------------------------------------------------------- actions *)
Set(t, r) == tasks' = [tasks EXCEPT ![t] = r]

(* POST /users up to the await of get_user_info (main.py:140).             *)
add_user(t, u) ==
    /\ app_state = "running"
    /\ tasks[t].pc = "idle"
    /\ Set(t, Begin("add_user", u, "add_info"))
    /\ UNCHANGED <<users, redis_books, redis_users, redis_up, app_state, scheduler, probe>>

add_user_unchecked(r, us, found) ==
    LET stored == UsersSet(us, r.user)
    IN  IF ~found THEN <<Finished(r, NotOnHardcover, None, "none"), stored>>
        ELSE <<refresh_user_data([r EXCEPT !.isnew = (stored # us)], stored,
                                 r.user), stored>>

(* add_user once get_user_info has answered: 404 when there is no such     *)
(* user, else store the user and start the initial refresh.                *)
add_user_checked(r, us, found) ==
    IF ~found THEN <<Finished(r, NotOnHardcover, None, "none"), us>>
    ELSE LET stored == UsersSet(us, r.user)
         IN  <<refresh_user_data([r EXCEPT !.isnew = (stored # us)], stored,
                                 r.user), stored>>

add_user_info(t) ==
    /\ tasks[t].pc = "add_info"
    /\ \E info \in InfoAnswers :
         LET next == add_user_checked(tasks[t], users, get_user_info(info))
         IN  /\ Set(t, next[1])
             /\ users' = next[2]
    /\ UNCHANGED <<redis_books, redis_users, redis_up, app_state, scheduler, probe>>

(* DELETE /users/{username} up to the await of invalidate_user_cache.      *)
remove_user(t, u) ==
    /\ app_state = "running"
    /\ tasks[t].pc = "idle"
    /\ IF u \notin Registered
       THEN /\ Set(t, Finished(Begin("remove_user", u, "idle"), NotFound,
                               None, "none"))
            /\ UNCHANGED users
       ELSE /\ users' = UsersDel(users, u)
            /\ Set(t, Begin("remove_user", u, "rm_invalidate"))
    /\ UNCHANGED <<redis_books, redis_users, redis_up, app_state, scheduler, probe>>

(* remove_user once the cache has been invalidated.                        *)
remove_user_done(t) ==
    /\ tasks[t].pc = "rm_invalidate"
    /\ redis_books' = invalidate_user_cache(redis_up, redis_books, tasks[t].user)
    /\ redis_users' = invalidate_user_cache(redis_up, redis_users, tasks[t].user)
    /\ Set(t, Finished(tasks[t], Ok, None, "none"))
    /\ UNCHANGED <<users, redis_up, app_state, scheduler, probe>>

feed_start_unchecked(u, us) == Begin("get_user_feed", u, "feed_read")

(* GET /feed/{username} up to the await of get_user_book_list.             *)
feed_start(u, us) ==
    IF u \notin {us[i] : i \in DOMAIN us}
    THEN Finished(Begin("get_user_feed", u, "idle"), NotFound, None, "none")
    ELSE Begin("get_user_feed", u, "feed_read")

get_user_feed(t, u) ==
    /\ app_state = "running"
    /\ tasks[t].pc = "idle"
    /\ Set(t, feed_start(u, users))
    /\ UNCHANGED <<users, redis_books, redis_users, redis_up, app_state, scheduler, probe>>

feed_cached_refetch(r, us, cached) == refresh_user_data(r, us, r.user)

(* get_user_feed once the cache has answered: serve the snapshot, or       *)
(* refresh when there is none.                                             *)
feed_cached(r, us, cached) ==
    IF cached # None THEN feed_response(r, cached[1], "cache")
    ELSE refresh_user_data(r, us, r.user)

get_user_feed_read(t) ==
    /\ tasks[t].pc = "feed_read"
    /\ Set(t, feed_cached(tasks[t], users,
                          get_user_book_list(redis_up, redis_books,
                                             tasks[t].user)))
    /\ UNCHANGED <<users, redis_books, redis_users, redis_up, app_state, scheduler, probe>>

(* POST /refresh/{username}: queue refresh_user_data as a background task. *)
refresh_user_feed(t, u) ==
    /\ app_state = "running"
    /\ tasks[t].pc = "idle"
    /\ IF u \notin Registered
       THEN Set(t, Finished(Begin("refresh_user_feed", u, "idle"), NotFound,
                            None, "none"))
       ELSE Set(t, Begin("refresh_user_feed", u, "background"))
    /\ UNCHANGED <<users, redis_books, redis_users, redis_up, app_state, scheduler, probe>>

(* POST /refresh: queue refresh_all_users as a background task.            *)
refresh_all_feeds(t) ==
    /\ app_state = "running"
    /\ tasks[t].pc = "idle"
    /\ IF users = <<>>
       THEN Set(t, Finished(Begin("refresh_all_feeds", "-", "idle"), NoUsers,
                            None, "none"))
       ELSE Set(t, Begin("refresh_all_feeds", "-", "background"))
    /\ UNCHANGED <<users, redis_books, redis_users, redis_up, app_state, scheduler, probe>>

(* The background task starts once the response has been sent.             *)
background_run(t) ==
    /\ tasks[t].pc = "background"
    /\ IF tasks[t].op = "refresh_user_feed"
       THEN Set(t, refresh_user_data(tasks[t], users, tasks[t].user))
       ELSE Set(t, refresh_all_users(tasks[t], users))
    /\ UNCHANGED <<users, redis_books, redis_users, redis_up, app_state, scheduler, probe>>

(* The interval job added at startup runs refresh_all_users; APScheduler   *)
(* runs one instance of a job at a time.                                   *)
scheduled_job(t) ==
    /\ job_due(scheduler, "refresh_all_users")
    /\ tasks[t].pc = "idle"
    /\ \A o \in Tasks : tasks[o].op # "job"
    /\ Set(t, refresh_all_users(Begin("job", "-", "idle"), users))
    /\ UNCHANGED <<users, redis_books, redis_users, redis_up, app_state, scheduler, probe>>

(* refresh_user_data once get_user_info has answered (main.py:83-86).      *)
refresh_info_checked(r, us, found) ==
    IF ~found THEN <<refresh_raised(r, us, NotFound), us>>
    ELSE <<[r EXCEPT !.pc = "r_fetch"], UsersSet(us, r.user)>>

refresh_info(t) ==
    /\ tasks[t].pc = "r_info"
    /\ \E info \in InfoAnswers :
         LET next == refresh_info_checked(tasks[t], users,
                                          get_user_info(info))
         IN  /\ Set(t, next[1])
             /\ users' = next[2]
    /\ UNCHANGED <<redis_books, redis_users, redis_up, app_state, scheduler, probe>>

refresh_fetched_clears(r, us, store, fetched) ==
    IF fetched = None
    THEN <<refresh_raised(r, us, NoData),
           remove_user_keys(TRUE, store, r.user)>>
    ELSE <<[r EXCEPT !.pc = "r_store", !.lst = fetched, !.src = "fetch"],
           store>>

(* refresh_user_data once get_user_want_to_read has answered               *)
(* (main.py:89-94): 404 when there is no list, else go on to write the     *)
(* snapshot.  The cache is not touched here.                               *)
refresh_fetched(r, us, store, fetched) ==
    IF fetched = None THEN <<refresh_raised(r, us, NoData), store>>
    ELSE <<[r EXCEPT !.pc = "r_store", !.lst = fetched, !.src = "fetch"],
           store>>

refresh_fetch(t) ==
    /\ tasks[t].pc = "r_fetch"
    /\ \E p \in Payloads, g \in Payloads :
         LET next == refresh_fetched(tasks[t], users, redis_books,
                                     get_user_want_to_read(p, g))
         IN  /\ Set(t, next[1])
             /\ redis_books' = next[2]
    /\ UNCHANGED <<users, redis_users, redis_up, app_state, scheduler, probe>>

refresh_stored_keeps(up, store, r) ==
    IF get_user_book_list(up, store, r.user) # None THEN store
    ELSE set_user_book_list(up, store, r.user, r.lst[1])

(* refresh_user_data once set_user_book_list has ended (main.py:94-103):   *)
(* the list is returned, or an exception of the write becomes a 500.       *)
refresh_stored(up, store, r) ==
    set_user_book_list(up, store, r.user, r.lst[1])

refresh_store(t) ==
    /\ tasks[t].pc = "r_store"
    /\ redis_books' = refresh_stored(redis_up, redis_books, tasks[t])
    /\ IF set_user_book_list_raises(redis_up)
       THEN Set(t, refresh_raised(tasks[t], users, RefreshError))
       ELSE Set(t, refresh_returned(tasks[t], users, tasks[t].lst[1]))
    /\ UNCHANGED <<users, redis_users, redis_up, app_state, scheduler, probe>>

(* refresh_all_users after asyncio.sleep(1): the next username.            *)
sweep_sleep(t) ==
    /\ tasks[t].pc = "sleep"
    /\ Set(t, sweep_next(tasks[t], users))
    /\ UNCHANGED <<users, redis_books, redis_users, redis_up, app_state, scheduler, probe>>

(* The response has been delivered: the task is gone.                      *)
task_end(t) ==
    /\ tasks[t].pc = "done"
    /\ Set(t, IdleTask)
    /\ UNCHANGED <<users, redis_books, redis_users, redis_up, app_state, scheduler, probe>>

(* Time passes: Redis drops the keys whose TTL has run out, and keeps the   *)
(* keys that have none.                                                    *)
Expire(e) ==
    IF e.ttl = NoExpiry THEN e
    ELSE IF e.ttl > ElapseStep THEN [e EXCEPT !.ttl = e.ttl - ElapseStep]
    ELSE NoEntry

Elapse ==
    /\ \E u \in Usernames :
           redis_books[u].data # None \/ redis_users[u].data # None
    /\ redis_books' = [u \in Usernames |-> Expire(redis_books[u])]
    /\ redis_users' = [u \in Usernames |-> Expire(redis_users[u])]
    /\ UNCHANGED <<users, redis_up, tasks, app_state, scheduler, probe>>

(* startup_event: connect to Redis (the service does not start when the    *)
(* ping fails), Scheduler.start, then add_refresh_job.                     *)
startup_event ==
    /\ app_state = "created"
    /\ redis_up
    /\ app_state' = "running"
    /\ scheduler' = add_refresh_job(start(scheduler), "refresh_all_users")
    /\ UNCHANGED <<users, redis_books, redis_users, redis_up, tasks, probe>>

(* shutdown_event: Scheduler.stop.  The server runs it once the requests   *)
(* in flight and their background tasks have ended; a scheduled job may    *)
(* still be running.                                                       *)
shutdown_event ==
    /\ app_state = "running"
    /\ \A t \in Tasks : tasks[t].op \in {"none", "job"}
    /\ app_state' = "shutdown"
    /\ scheduler' = stop(scheduler)
    /\ \E cancel \in SUBSET InFlightJobs(tasks) :
           tasks' = shutdown_jobs(scheduler, tasks, cancel)
    /\ UNCHANGED <<users, redis_books, redis_users, redis_up, probe>>

Next ==
    \/ \E t \in Tasks, u \in Usernames : add_user(t, u)
    \/ \E t \in Tasks : add_user_info(t)
    \/ \E t \in Tasks, u \in Usernames : remove_user(t, u)
    \/ \E t \in Tasks : remove_user_done(t)
    \/ \E t \in Tasks, u \in Usernames : get_user_feed(t, u)
    \/ \E t \in Tasks : get_user_feed_read(t)
    \/ \E t \in Tasks, u \in Usernames : refresh_user_feed(t, u)
    \/ \E t \in Tasks : refresh_all_feeds(t)
    \/ \E t \in Tasks : background_run(t)
    \/ \E t \in Tasks : scheduled_job(t)
    \/ \E t \in Tasks : refresh_info(t)
    \/ \E t \in Tasks : refresh_fetch(t)
    \/ \E t \in Tasks : refresh_store(t)
    \/ \E t \in Tasks : sweep_sleep(t)
    \/ \E t \in Tasks : task_end(t)
    \/ Elapse
    \/ startup_event
    \/ shutdown_event

Spec == Init /\ [][Next]_vars

(* ---------------------------------------------------------------- outage *)
(* The Redis server stops answering, or answers again.  The keys and their *)
(* times to live are kept by the server meanwhile.                         *)
redis_fails ==
    /\ redis_up
    /\ redis_up' = FALSE
    /\ UNCHANGED <<users, redis_books, redis_users, tasks, app_state, scheduler, probe>>

redis_recovers ==
    /\ ~redis_up
    /\ redis_up' = TRUE
    /\ UNCHANGED <<users, redis_books, redis_users, tasks, app_state, scheduler, probe>>

(* The requests for one username at a time, with outages; the sweeps,      *)
(* which use the store as a single refresh does, are left to Spec.         *)
OutageNext ==
    \/ \E t \in Tasks, u \in Usernames : add_user(t, u)
    \/ \E t \in Tasks : add_user_info(t)
    \/ \E t \in Tasks, u \in Usernames : remove_user(t, u)
    \/ \E t \in Tasks : remove_user_done(t)
    \/ \E t \in Tasks, u \in Usernames : get_user_feed(t, u)
    \/ \E t \in Tasks : get_user_feed_read(t)
    \/ \E t \in Tasks, u \in Usernames : refresh_user_feed(t, u)
    \/ \E t \in Tasks : background_run(t)
    \/ \E t \in Tasks : refresh_info(t)
    \/ \E t \in Tasks : refresh_fetch(t)
    \/ \E t \in Tasks : refresh_store(t)
    \/ \E t \in Tasks : task_end(t)
    \/ Elapse
    \/ startup_event
    \/ shutdown_event
    \/ redis_fails
    \/ redis_recovers

OutageSpec == Init /\ [][OutageNext]_vars

(* ------------------------------------------------------------- scheduler *)
(* The operations of Scheduler called in any order on the running service, *)
(* with no request in flight: the state after startup_event, for every     *)
(* registry that add_user and remove_user can have built, once the         *)
(* snapshots have expired.                                                 *)
Registries ==
    {<<>>, <<"alice">>, <<"bob">>, <<"alice", "bob">>, <<"bob", "alice">>}

SchedulerInit ==
    /\ users \in Registries
    /\ redis_books = [u \in Usernames |-> NoEntry]
    /\ redis_users = [u \in Usernames |-> NoEntry]
    /\ redis_up = TRUE
    /\ tasks = [t \in Tasks |-> IdleTask]
    /\ app_state = "running"
    /\ scheduler = add_refresh_job(start(NewScheduler), "refresh_all_users")
    /\ probe = NoProbe

call_start ==
    /\ scheduler' = start(scheduler)
    /\ UNCHANGED <<users, redis_books, redis_users, redis_up, tasks, app_state, probe>>

call_stop ==
    /\ scheduler' = stop(scheduler)
    /\ \E cancel \in SUBSET InFlightJobs(tasks) :
           tasks' = shutdown_jobs(scheduler, tasks, cancel)
    /\ UNCHANGED <<users, redis_books, redis_users, redis_up, app_state, probe>>

call_add_refresh_job ==
    /\ scheduler' = add_refresh_job(scheduler, "refresh_all_users")
    /\ UNCHANGED <<users, redis_books, redis_users, redis_up, tasks, app_state, probe>>

call_remove_job ==
    /\ scheduler' = remove_job(scheduler, "refresh_all_users")
    /\ UNCHANGED <<users, redis_books, redis_users, redis_up, tasks, app_state, probe>>

(* refresh_info is not among the steps: a sweep refreshes the keys of      *)
(* `users`, which no step here removes, so get_user_info is never awaited. *)
SchedulerNext ==
    \/ call_start
    \/ call_stop
    \/ call_add_refresh_job
    \/ call_remove_job
    \/ \E t \in Tasks : scheduled_job(t)
    \/ \E t \in Tasks : refresh_fetch(t)
    \/ \E t \in Tasks : refresh_store(t)
    \/ \E t \in Tasks : sweep_sleep(t)
    \/ \E t \in Tasks : task_end(t)
    \/ Elapse

SchedulerSpec == SchedulerInit /\ [][SchedulerNext]_vars

(* ----------------------------------------------------------------- fetch *)
(* refresh_user_data(ProbeUser) applied to every combination of upstream   *)
(* answers, step by step as the tasks above run it.                        *)
FetchInit ==
    /\ users = <<>>
    /\ redis_books = [u \in Usernames |-> NoEntry]
    /\ redis_users = [u \in Usernames |-> NoEntry]
    /\ redis_up = TRUE
    /\ tasks = [t \in Tasks |-> IdleTask]
    /\ app_state = "created"
    /\ scheduler = NewScheduler
    /\ probe \in {ProbeCall(registered, info, p, g) :
                      registered \in BOOLEAN, info \in InfoAnswers,
                      p \in Payloads, g \in Payloads}

probe_info ==
    /\ probe.task.pc = "r_info"
    /\ LET next == refresh_info_checked(probe.task, probe.reg,
                                        get_user_info(probe.info))
       IN  probe' = [probe EXCEPT !.task = next[1], !.reg = next[2],
                                  !.stage = ProbeStage(next[1])]
    /\ UNCHANGED <<users, redis_books, redis_users, redis_up, tasks, app_state, scheduler>>

probe_fetch ==
    /\ probe.task.pc = "r_fetch"
    /\ LET trace == get_user_want_to_read_trace(probe.p, probe.g)
           next == refresh_fetched(probe.task, probe.reg, redis_books,
                                   trace.result)
       IN  probe' = [probe EXCEPT !.task = next[1], !.tried = trace.tried,
                                  !.stage = ProbeStage(next[1])]
    /\ UNCHANGED <<users, redis_books, redis_users, redis_up, tasks, app_state, scheduler>>

probe_store ==
    /\ probe.task.pc = "r_store"
    /\ LET next == IF set_user_book_list_raises(redis_up)
                   THEN refresh_raised(probe.task, probe.reg, RefreshError)
                   ELSE refresh_returned(probe.task, probe.reg,
                                         probe.task.lst[1])
       IN  probe' = [probe EXCEPT !.task = next, !.stage = ProbeStage(next)]
    /\ UNCHANGED <<users, redis_books, redis_users, redis_up, tasks, app_state, scheduler>>

FetchNext == probe_info \/ probe_fetch \/ probe_store

FetchSpec == FetchInit /\ [][FetchNext]_vars

(* ------------------------------------------------ the Cache on its own *)
(* The methods of Cache called in any order on an empty store, while time  *)
(* passes and the store goes down and comes back.  The probe keeps what    *)
(* the last clear_cache call saw: calls counts the calls modulo 2, removed *)
(* the snapshot keys the call made disappear.                              *)
CacheProbe(calls, removed) ==
    [stage |-> "cache", calls |-> calls, removed |-> removed]

CacheInit ==
    /\ users = <<>>
    /\ redis_books = [u \in Usernames |-> NoEntry]
    /\ redis_users = [u \in Usernames |-> NoEntry]
    /\ redis_up = TRUE
    /\ tasks = [t \in Tasks |-> IdleTask]
    /\ app_state = "running"
    /\ scheduler = NewScheduler
    /\ probe = CacheProbe(0, {})

call_store_user_persistent(u) ==
    /\ redis_users' = store_user_persistent(redis_up, redis_users, u)
    /\ UNCHANGED <<users, redis_books, redis_up, tasks, app_state, scheduler, probe>>

call_set_user_data(u) ==
    /\ redis_users' = set_user_data(redis_up, redis_users, u, user_data_ttl)
    /\ UNCHANGED <<users, redis_books, redis_up, tasks, app_state, scheduler, probe>>

call_set_book_list(u, l) ==
    /\ redis_books' = set_book_list(redis_up, redis_books, u, l, cache_ttl)
    /\ UNCHANGED <<users, redis_users, redis_up, tasks, app_state, scheduler, probe>>

call_remove_user(u) ==
    /\ redis_users' = remove_user_keys(redis_up, redis_users, u)
    /\ redis_books' = remove_user_keys(redis_up, redis_books, u)
    /\ UNCHANGED <<users, redis_up, tasks, app_state, scheduler, probe>>

call_clear_cache ==
    /\ redis_books' = clear_cache(redis_up, redis_books)
    /\ probe' = CacheProbe(1 - probe.calls,
                           {u \in Usernames : /\ redis_books[u].data # None
                                              /\ redis_books'[u].data = None})
    /\ UNCHANGED <<users, redis_users, redis_up, tasks, app_state, scheduler>>

CacheNext ==
    \/ \E u \in Usernames :
          \/ call_store_user_persistent(u)
          \/ call_set_user_data(u)
          \/ call_remove_user(u)
          \/ \E l \in UpstreamLists : call_set_book_list(u, l)
    \/ call_clear_cache
    \/ Elapse
    \/ redis_fails
    \/ redis_recovers

CacheSpec == CacheInit /\ [][CacheNext]_vars

(* ------------------------------------------------ overlapping refreshes *)
(* Manual refreshes of ProbeUser, registered, run by the tasks in any      *)
(* interleaving.  The probe keeps the order in which the fetches that the  *)
(* tasks ran last were started: order is the tasks by the time of the call *)
(* of get_user_want_to_read (main.py:89), the earliest first.              *)
RaceProbe(order) == [stage |-> "race", order |-> order]

RaceInit ==
    /\ users = <<ProbeUser>>
    /\ redis_books = [u \in Usernames |-> NoEntry]
    /\ redis_users = [u \in Usernames |-> NoEntry]
    /\ redis_up = TRUE
    /\ tasks = [t \in Tasks |-> IdleTask]
    /\ app_state = "running"
    /\ scheduler = NewScheduler
    /\ probe = RaceProbe(<<>>)

(* The background task of refresh_user_feed(ProbeUser) starts: the user is *)
(* in memory, so refresh_user_data goes to the fetch at once.              *)
race_start(t) ==
    /\ tasks[t].pc \in {"idle", "done"}
    /\ Set(t, refresh_user_data(
                  Begin("refresh_user_feed", ProbeUser, "background"),
                  users, ProbeUser))
    /\ probe' = RaceProbe(Append(SelectSeq(probe.order, LAMBDA o : o # t), t))
    /\ UNCHANGED <<users, redis_books, redis_users, redis_up, app_state, scheduler>>

RaceNext ==
    \E t \in Tasks : race_start(t) \/ refresh_fetch(t) \/ refresh_store(t)

RaceSpec == RaceInit /\ [][RaceNext]_vars

(* ------------------------------------------------- the data-page parse *)
(* The JSON value under a "rating" key of an entry: the key is missing     *)
(* (t = "missing"), or its value is null, a number (num) or a string       *)
(* (text).                                                                 *)
RatingValue(t, num, text) == [t |-> t, num |-> num, text |-> text]

RatingValues ==
    {RatingValue("missing", 0, ""), RatingValue("null", 0, ""),
     RatingValue("number", 0, ""), RatingValue("number", 4, ""),
     RatingValue("text", 0, "N/A"), RatingValue("text", 4, "4")}

(* Python's truth value of book_info.get("rating").                        *)
truthy(r) ==
    \/ r.t = "number" /\ r.num # 0
    \/ r.t = "text" /\ r.text # ""

(* float(x): the number, the number a numeric string spells, ValueError    *)
(* for any other string.                                                   *)
NumericTexts == {"4"}

float_raises(r) == r.t = "text" /\ r.text \notin NumericTexts

float(r) == r.num

(* average_rating=float(book_info["rating"]) if book_info.get("rating")    *)
(* else None: raised tells whether the expression raised ValueError.       *)
average_rating(r) ==
    IF ~truthy(r) THEN [raised |-> FALSE, value |-> None]
    ELSE IF float_raises(r) THEN [raised |-> TRUE, value |-> None]
    ELSE [raised |-> FALSE, value |-> Some(float(r))]

(* The entries of a book collection: an id and a rating value.             *)
Entries == [id : 1..MaxBooks, rating : RatingValues]
EntryLists == UNION {[1..n -> Entries] : n \in 0..MaxBooks}

(* What the page holds at one of the two paths (props.letterbooks, top     *)
(* level letterbooks): no such key ("missing"), a list of entries          *)
(* ("list"), a dict with a "letterbooks" list ("dict"), a dict without     *)
(* that key ("dict_nokey"), or a value that is neither ("other").          *)
PathValue(kind, items) == [kind |-> kind, items |-> items]

PathValues ==
    {PathValue(k, <<>>) : k \in {"missing", "dict_nokey", "other"}}
    \cup {PathValue(k, l) : k \in {"list", "dict"}, l \in EntryLists}

DataPages == [props : PathValues, top : PathValues]

(* The inner if/elif: the collection of a letterbooks_obj, None when it is *)
(* neither a dict with the key nor a list.                                 *)
letterbooks_of(o) ==
    IF o.kind \in {"dict", "list"} THEN Some(o.items) ELSE None

(* books_list after hardcover.py:186-199: the elif branch of the top-level *)
(* key is taken only when props.letterbooks is not in the page.            *)
extract_books_list(data) ==
    IF data.props.kind # "missing" THEN letterbooks_of(data.props)
    ELSE IF data.top.kind # "missing" THEN letterbooks_of(data.top)
    ELSE None

build_books_skips(l) ==
    LET kept == SelectSeq(l, LAMBDA e : ~average_rating(e.rating).raised)
    IN  Some([i \in DOMAIN kept |->
                 [id |-> kept[i].id,
                  average_rating |-> average_rating(kept[i].rating).value,
                  date_added |-> None]])

(* The loop over books_list: one Book per entry; an exception in any       *)
(* entry leaves the loop for the except clause of the method, which        *)
(* returns None.                                                           *)
build_books(l) ==
    IF \E i \in DOMAIN l : average_rating(l[i].rating).raised THEN None
    ELSE Some([i \in DOMAIN l |->
                  [id |-> l[i].id,
                   average_rating |-> average_rating(l[i].rating).value,
                   date_added |-> None]])

(* fetch_user_want_to_read_xhr from the parsed data-page on: its           *)
(* books_list and the books of the UserBookList it returns (None when it   *)
(* returns None).                                                          *)
parse_data_page(data) ==
    LET books_list == extract_books_list(data)
    IN  [books_list |-> books_list,
         result |-> IF books_list = None \/ books_list = Some(<<>>) THEN None
                    ELSE build_books(books_list[1])]

ParseProbe(data) ==
    [stage |-> "page", data |-> data, books_list |-> None, result |-> None]

ParseInit ==
    /\ users = <<ProbeUser>>
    /\ redis_books = [u \in Usernames |-> NoEntry]
    /\ redis_users = [u \in Usernames |-> NoEntry]
    /\ redis_up = TRUE
    /\ tasks = [t \in Tasks |-> IdleTask]
    /\ app_state = "running"
    /\ scheduler = NewScheduler
    /\ probe \in {ParseProbe(data) : data \in DataPages}

parse_page ==
    /\ probe.stage = "page"
    /\ LET parsed == parse_data_page(probe.data)
       IN  probe' = [probe EXCEPT !.stage = "parsed",
                                  !.books_list = parsed.books_list,
                                  !.result = parsed.result]
    /\ UNCHANGED <<users, redis_books, redis_users, redis_up, tasks, app_state, scheduler>>

ParseNext == parse_page

ParseSpec == ParseInit /\ [][ParseNext]_vars

(* ------------------------------------------- snapshots on the wire *)
(* A datetime: wall is the wall-clock hour it shows, tz its UTC offset in  *)
(* hours, or None when it has no tzinfo (a naive datetime).                *)
UtcOffsets == {0, 2}
WallHours == {10, 20}
Datetimes == [wall : WallHours, tz : {None} \cup {Some(o) : o \in UtcOffsets}]

(* The timestamp normalized to UTC: one without timezone is taken as UTC.  *)
as_utc(d) ==
    IF d.tz = None THEN [wall |-> d.wall, tz |-> Some(0)]
    ELSE [wall |-> d.wall - d.tz[1], tz |-> Some(0)]

(* ISO-8601 text of a datetime and its parse: the text carries the wall    *)
(* clock and, unless the datetime is naive, the offset.                    *)
isoformat(d) == [iso |-> d.wall, offset |-> d.tz]

fromisoformat(s) == [wall |-> s.iso, tz |-> s.offset]

(* A timestamp field on the wire: ISO-8601 with explicit UTC offset when   *)
(* written, normalized to UTC when read.                                   *)
to_wire_drops_offset(d) ==
    IF d = None THEN None ELSE Some([iso |-> d[1].wall, offset |-> None])

to_wire(d) == IF d = None THEN None ELSE Some(isoformat(as_utc(d[1])))

from_wire(s) == IF s = None THEN None ELSE Some(as_utc(fromisoformat(s[1])))

(* Book entries (models.py) with the fields of each JSON type: id (str),   *)
(* average_rating (Optional[float]), date_added (Optional[datetime]).      *)
Ratings == {None, Some(0), Some(4)}
Books ==
    [id : {1}, average_rating : Ratings,
     date_added : {None} \cup {Some(d) : d \in Datetimes}]
BookLists == UNION {[1..n -> Books] : n \in 0..MaxBooks}

(* The snapshot value of a book list and the book list of a snapshot       *)
(* value: the fields as they are, the timestamp in its wire form.          *)
to_dict(l) ==
    [i \in DOMAIN l |-> [l[i] EXCEPT !.date_added = to_wire(@)]]

from_dict(v) ==
    [i \in DOMAIN v |-> [v[i] EXCEPT !.date_added = from_wire(@)]]

(* One book list written to the cache store and read back: books is the    *)
(* list, read what the read gave (None before it, and when the key is      *)
(* gone).                                                                  *)
CodecProbe(l) == [stage |-> "made", books |-> l, read |-> None]

CodecInit ==
    /\ users = <<ProbeUser>>
    /\ redis_books = [u \in Usernames |-> NoEntry]
    /\ redis_users = [u \in Usernames |-> NoEntry]
    /\ redis_up = TRUE
    /\ tasks = [t \in Tasks |-> IdleTask]
    /\ app_state = "running"
    /\ scheduler = NewScheduler
    /\ probe \in {CodecProbe(l) : l \in BookLists}

codec_write ==
    /\ probe.stage = "made"
    /\ redis_books' = set_book_list(redis_up, redis_books, ProbeUser,
                                    to_dict(probe.books), cache_ttl)
    /\ probe' = [probe EXCEPT !.stage = "written"]
    /\ UNCHANGED <<users, redis_users, redis_up, tasks, app_state, scheduler>>

codec_read ==
    /\ probe.stage = "written"
    /\ LET v == get_book_list(redis_up, redis_books, ProbeUser)
       IN  probe' = [probe EXCEPT
                        !.stage = "read",
                        !.read = IF v = None THEN None
                                 ELSE Some(from_dict(v[1]))]
    /\ UNCHANGED <<users, redis_books, redis_users, redis_up, tasks, app_state, scheduler>>

CodecNext == codec_write \/ codec_read \/ Elapse

CodecSpec == CodecInit /\ [][CodecNext]_vars

(* ---------------------------------------------------------------- claims *)
Snapshot(u) == redis_books[u].data

(* Task t has called the Fetcher for a book list: the call is in flight,   *)
(* or its result is about to be written.                                   *)
Fetching(t) == tasks[t].pc = "r_fetch"
HasFetched(t) == tasks[t].pc \in {"r_fetch", "r_store"}

(* Task t takes this step.                                                 *)
Steps(t) == tasks'[t] # tasks[t]

(* C1: when get_user_feed reads the cache for a registered identity and a  *)
(* snapshot is there (present, not expired), the read ends at once with    *)
(* that snapshot as its book list: no get_user_info, no fetch, no write.   *)
C1_FreshSnapshotServedWithoutFetch ==
    [][\A t \in Tasks :
         ( /\ tasks[t].op = "get_user_feed"
           /\ tasks[t].pc = "feed_read"
           /\ Steps(t)
           /\ tasks[t].user \in Registered
           /\ Snapshot(tasks[t].user) # None )
         => /\ tasks'[t].pc = "done"
            /\ tasks'[t].lst = Snapshot(tasks[t].user)
            /\ tasks'[t].src = "cache"
            /\ redis_books' = redis_books]_vars

(* C1 witness: a feed read has ended with the cached snapshot, which had   *)
(* aged but not expired, while its identity is registered.                 *)
C1_Witness ==
    \E t \in Tasks :
        /\ tasks[t].op = "get_user_feed"
        /\ tasks[t].pc = "done"
        /\ tasks[t].src = "cache"
        /\ tasks[t].user \in Registered
        /\ tasks[t].lst = Snapshot(tasks[t].user)
        /\ redis_books[tasks[t].user].ttl < cache_ttl

(* C2: feed reads of one identity that run at the same time on a missing   *)
(* snapshot share one Fetcher call: no two of them have each called the    *)
(* Fetcher.                                                                *)
C2_ConcurrentReadsShareOneFetch ==
    \A t1, t2 \in Tasks :
        ( /\ t1 # t2
          /\ tasks[t1].op = "get_user_feed"
          /\ tasks[t2].op = "get_user_feed"
          /\ tasks[t1].user = tasks[t2].user )
        => ~(HasFetched(t1) /\ HasFetched(t2))

(* C3: no two Fetcher calls for one identity are in flight at once,        *)
(* whichever operations started them.                                      *)
C3_OneFetchInFlightPerIdentity ==
    \A t1, t2 \in Tasks :
        (t1 # t2 /\ Fetching(t1) /\ Fetching(t2))
        => tasks[t1].user # tasks[t2].user

(* C4: a snapshot exists only for a registered identity.  The states in    *)
(* the middle of remove_user (registration deleted, invalidation awaited)  *)
(* are left out, so that what is checked is the lasting case: a refresh    *)
(* that was in flight at the removal writes no snapshot afterwards.        *)
C4_SnapshotOnlyIfRegistered ==
    \A u \in Usernames :
        (Snapshot(u) # None /\ u \notin Registered)
        => \E t \in Tasks :
               tasks[t].pc = "rm_invalidate" /\ tasks[t].user = u

(* C5: once remove_user(X) has completed, X has no registration and no     *)
(* snapshot, and it stays so until add_user(X) registers X again.          *)
C5_RemovedStaysGone ==
    [][\A u \in Usernames :
         ( /\ u \notin Registered
           /\ Snapshot(u) = None
           /\ \A t \in Tasks :
                  ~(tasks[t].pc = "rm_invalidate" /\ tasks[t].user = u) )
         => \/ (u \notin Registered' /\ redis_books'[u].data = None)
            \/ \E t \in Tasks :
                   /\ tasks[t].op = "add_user"
                   /\ tasks[t].pc = "add_info"
                   /\ tasks[t].user = u
                   /\ Steps(t)]_vars

(* C6: only add_user (once get_user_info has answered) adds an identity to *)
(* the registered set, and only remove_user removes one.                   *)
C6_MembershipOnlyByAddRemove ==
    [][\A u \in Usernames :
         /\ (u \in Registered' /\ u \notin Registered)
            => \E t \in Tasks :
                   /\ tasks[t].op = "add_user"
                   /\ tasks[t].pc = "add_info"
                   /\ tasks[t].user = u
                   /\ Steps(t)
         /\ (u \in Registered /\ u \notin Registered')
            => \E t \in Tasks :
                   /\ tasks[t].pc = "idle"
                   /\ tasks'[t].op = "remove_user"
                   /\ tasks'[t].user = u]_vars

(* C7: an add_user(X) that put X in the registered set itself and then     *)
(* ended in failure leaves X unregistered.                                 *)
C7_FailedAddNotRegistered ==
    \A t \in Tasks :
        ( /\ tasks[t].op = "add_user"
          /\ tasks[t].pc = "done"
          /\ tasks[t].resp.status >= 400
          /\ tasks[t].isnew )
        => tasks[t].user \notin Registered

(* C8: add_user does not touch the registered set before get_user_info has *)
(* answered, and when the answer is "no such user" it ends with 404 and    *)
(* leaves the registered set and the cache as they were.                   *)
C8_AddStoresOnlyAfterExistenceCheck ==
    [][\A t \in Tasks :
         /\ (tasks[t].pc = "idle" /\ tasks'[t].op = "add_user")
            => (users' = users /\ redis_books' = redis_books)
         /\ (tasks[t].pc = "add_info" /\ tasks'[t].pc = "done")
            => /\ tasks'[t].resp = NotOnHardcover
               /\ users' = users
               /\ redis_books' = redis_books]_vars

(* C8 witness: an add_user has ended with "not found on Hardcover" and its *)
(* identity is not registered.                                             *)
C8_Witness ==
    \E t \in Tasks :
        /\ tasks[t].op = "add_user"
        /\ tasks[t].pc = "done"
        /\ tasks[t].resp = NotOnHardcover
        /\ tasks[t].user \notin Registered

(* Task t's refresh_user_data fails in this step: it was awaiting the      *)
(* Fetcher and does not go on with the same identity.                      *)
RefreshFails(t) ==
    /\ tasks[t].pc \in {"r_info", "r_fetch"}
    /\ Steps(t)
    /\ ~(tasks'[t].user = tasks[t].user /\ tasks'[t].pc \in {"r_fetch", "r_store"})
    /\ tasks'[t].resp # Cancelled

(* C9: a failing refresh of X leaves X's snapshot as it was (content and   *)
(* remaining time to live); a request or background task ends with the     *)
(* failure, and a sweep does not count X as refreshed (it does not sleep). *)
C9_FailedRefreshKeepsSnapshot ==
    [][\A t \in Tasks :
         RefreshFails(t)
         => /\ redis_books'[tasks[t].user] = redis_books[tasks[t].user]
            /\ tasks'[t].pc # "sleep"
            /\ tasks[t].op \in {"add_user", "get_user_feed", "refresh_user_feed"}
               => /\ tasks'[t].pc = "done"
                  /\ tasks'[t].resp.status = 404
                  /\ tasks'[t].lst = None]_vars

(* C9 witness: a manual refresh has ended with "no data" and the snapshot  *)
(* written before it, now aged, is still there.                            *)
C9_Witness ==
    \E t \in Tasks :
        /\ tasks[t].op = "refresh_user_feed"
        /\ tasks[t].pc = "done"
        /\ tasks[t].resp = NoData
        /\ Snapshot(tasks[t].user) # None
        /\ redis_books[tasks[t].user].ttl < cache_ttl

(* C10: get_user_feed for an identity that is not registered ends at once  *)
(* with 404: it awaits nothing (no cache read, no Fetcher call) and the    *)
(* cache and the registered set stay as they were.                         *)
C10_UnregisteredFeedIsNotFound ==
    [][\A t \in Tasks :
         ( /\ tasks[t].pc = "idle"
           /\ tasks'[t].op = "get_user_feed"
           /\ tasks'[t].user \notin Registered )
         => /\ tasks'[t].pc = "done"
            /\ tasks'[t].resp = NotFound
            /\ tasks'[t].lst = None
            /\ redis_books' = redis_books
            /\ users' = users]_vars

(* C10 witness: a feed read of an identity that is not registered has      *)
(* ended with 404, while another identity is registered.                   *)
C10_Witness ==
    \E t \in Tasks :
        /\ tasks[t].op = "get_user_feed"
        /\ tasks[t].pc = "done"
        /\ tasks[t].resp = NotFound
        /\ tasks[t].user \notin Registered
        /\ Registered # {}

(* C11: a feed read that has ended without a book list (its fetch failed)  *)
(* has ended with an error response, and a feed read that has ended with   *)
(* 200 carries a book list with at least one book.                         *)
C11_NoEmptyFeedAsSuccess ==
    \A t \in Tasks :
        (tasks[t].op = "get_user_feed" /\ tasks[t].pc = "done")
        => /\ tasks[t].lst = None => tasks[t].resp.status >= 400
           /\ tasks[t].resp.status = 200
              => (tasks[t].lst # None /\ Len(tasks[t].lst[1]) > 0)

(* C11 witness: a feed read of a registered identity without a snapshot    *)
(* has ended with "no data" after its fetch failed.                        *)
C11_Witness ==
    \E t \in Tasks :
        /\ tasks[t].op = "get_user_feed"
        /\ tasks[t].pc = "done"
        /\ tasks[t].resp = NoData
        /\ tasks[t].lst = None
        /\ tasks[t].user \in Registered
        /\ Snapshot(tasks[t].user) = None

(* C12: while Redis does not answer, a feed read of a registered identity  *)
(* takes the snapshot as absent and goes on to fetch, and when the fetch   *)
(* has succeeded it ends with 200 and the fetched list.                    *)
C12_FeedServedWhileStoreDown ==
    [][\A t \in Tasks :
         ( /\ tasks[t].op = "get_user_feed"
           /\ ~redis_up
           /\ Steps(t)
           /\ tasks[t].user \in Registered )
         => /\ tasks[t].pc = "feed_read" => tasks'[t].pc = "r_fetch"
            /\ tasks[t].pc = "r_store"
               => /\ tasks'[t].pc = "done"
                  /\ tasks'[t].resp.status = 200
                  /\ tasks'[t].lst = tasks[t].lst]_vars

(* C13: when the snapshot write of a refresh fails because Redis does not  *)
(* answer, nothing is written and the write raises to its caller.          *)
C13_FailedWriteSurfaced ==
    [][\A t \in Tasks :
         (tasks[t].pc = "r_store" /\ ~redis_up /\ Steps(t))
         => /\ redis_books' = redis_books
            /\ set_book_list_raises(redis_up)]_vars

(* C14: a refresh_user_data that fails because the upstream gave nothing   *)
(* usable (to get_user_info, or to both strategies of the fetch) ends with *)
(* 503, not with the status of "no such user".                             *)
C14_UpstreamFailureIsServiceUnavailable ==
    probe.stage = "done"
    => /\ (~probe.registered /\ probe.info = "unreachable")
          => probe.task.resp.status = 503
       /\ ( /\ probe.registered \/ probe.info = "user"
            /\ probe.p = None
            /\ probe.g = None )
          => probe.task.resp.status = 503

(* C15: when the XHR strategy gives an error or zero books, the GraphQL    *)
(* request is sent before the fetch fails, and when GraphQL gives an error *)
(* or zero books too the refresh fails with no book list.                  *)
C15_SecondaryTriedBeforeFailure ==
    ( /\ probe.stage = "done"
      /\ probe.registered \/ probe.info = "user"
      /\ probe.p = None \/ probe.p = Some(<<>>) )
    => /\ probe.tried = <<"xhr", "graphql">>
       /\ (probe.g = None \/ probe.g = Some(<<>>))
          => (probe.task.lst = None /\ probe.task.resp.status >= 400)

(* C16: when the XHR strategy gives at least one book, the fetch result is *)
(* exactly the XHR list and the GraphQL request is not sent.               *)
C16_PrimaryResultWins ==
    ( /\ probe.stage = "done"
      /\ probe.registered \/ probe.info = "user"
      /\ probe.p # None
      /\ probe.p # Some(<<>>) )
    => /\ probe.task.lst = probe.p
       /\ probe.tried = <<"xhr">>

(* C16 witness: the call has ended with the XHR list while GraphQL would   *)
(* have given another, non-empty list.                                     *)
C16_Witness ==
    /\ probe.stage = "done"
    /\ probe.p = Some(<<2, 1>>)
    /\ probe.g = Some(<<1>>)
    /\ probe.task.lst = Some(<<2, 1>>)
    /\ probe.task.resp = Ok

SweepOps == {"refresh_all_feeds", "job"}

(* C17: when the refresh of one username fails inside refresh_all_users,   *)
(* the sweep logs the username and goes on with the next one, or ends      *)
(* without an exception when there is none left.                           *)
C17_SweepSurvivesFailure ==
    [][\A t \in Tasks :
         (tasks[t].op \in SweepOps /\ RefreshFails(t))
         => /\ tasks'[t].failed = Append(tasks[t].failed, tasks[t].user)
            /\ IF tasks[t].queue = <<>>
               THEN tasks'[t].pc = "done" /\ tasks'[t].resp = Ok
               ELSE /\ tasks'[t].pc \in {"r_info", "r_fetch"}
                    /\ tasks'[t].user = Head(tasks[t].queue)
                    /\ tasks'[t].queue = Tail(tasks[t].queue)]_vars

(* C17 witness: a scheduled sweep over two usernames has ended without an  *)
(* exception; the refresh of the first failed, the second has a snapshot   *)
(* just written.                                                           *)
C17_Witness ==
    \E t \in Tasks :
        /\ tasks[t].op = "job"
        /\ tasks[t].pc = "done"
        /\ tasks[t].resp = Ok
        /\ Len(users) = 2
        /\ tasks[t].failed = <<users[1]>>
        /\ Snapshot(users[2]) # None
        /\ redis_books[users[2]].ttl = cache_ttl
        /\ \A o \in Tasks \ {t} : tasks[o].pc = "idle"

(* C18: inside one sweep, the refresh of one username is never followed by *)
(* the refresh of the next without the pacing sleep in between.            *)
C18_PacingBetweenRefreshes ==
    [][\A t \in Tasks :
         ( /\ tasks[t].op \in SweepOps
           /\ tasks[t].pc \in {"r_info", "r_fetch", "r_store"}
           /\ tasks'[t].pc \in {"r_info", "r_fetch"} )
         => tasks'[t].user = tasks[t].user]_vars

(* C19: the Scheduler is stopped or running; after start it is running and *)
(* after stop it is stopped, whatever state the call found; no other call  *)
(* changes the state, and no call raises to its caller.                    *)
C19_SchedulerStoppedOrRunning ==
    /\ scheduler.state \in {"stopped", "running"}
    /\ ~scheduler.raised
    /\ scheduler.last = "start" => scheduler.state = "running"
    /\ scheduler.last = "stop" => scheduler.state = "stopped"
    /\ scheduler.last \notin {"start", "stop"}
       => scheduler.state = scheduler.before

(* C19 witness: start has been called on a running Scheduler.              *)
C19_Witness ==
    /\ scheduler.last = "start"
    /\ scheduler.before = "running"
    /\ scheduler.state = "running"

(* C20: stop leaves the Scheduler stopped, only start makes it running     *)
(* again, and while it is stopped no scheduled sweep starts.               *)
C20_NoSweepStartsAfterStop ==
    [][/\ scheduler'.last = "stop" => scheduler'.state = "stopped"
       /\ (scheduler.state = "stopped" /\ scheduler'.state = "running")
          => scheduler'.last = "start"
       /\ scheduler.state = "stopped"
          => \A t \in Tasks :
                 ~(tasks[t].op # "job" /\ tasks'[t].op = "job")]_vars

(* C20 witness: stop has been called while the refresh job is registered,  *)
(* usernames are registered and no sweep is running.                       *)
C20_Witness ==
    /\ scheduler.last = "stop"
    /\ scheduler.before = "running"
    /\ scheduler.state = "stopped"
    /\ "refresh_all_users" \in scheduler.jobs
    /\ users # <<>>
    /\ \A t \in Tasks : tasks[t].pc = "idle"

(* C21: no refresh that is in flight when the Scheduler is stopped is      *)
(* cancelled: no task ends with CancelledError.                            *)
C21_NoRefreshCancelled ==
    \A t \in Tasks : ~(tasks[t].pc = "done" /\ tasks[t].resp = Cancelled)

(* C22: the background task of refresh_user_feed for a registered identity *)
(* goes to the Fetcher whether or not a snapshot is stored (it reads no    *)
(* cached list), and when the fetch has given a list, the write replaces   *)
(* the stored snapshot by that list with a fresh TTL.                      *)
C22_ManualRefreshBypassesSnapshot ==
    [][\A t \in Tasks :
         (tasks[t].op = "refresh_user_feed" /\ Steps(t)) =>
            /\ ( tasks[t].pc = "background" /\ tasks[t].user \in Registered )
               => /\ tasks'[t].pc = "r_fetch"
                  /\ tasks'[t].lst = None
                  /\ redis_books' = redis_books
            /\ tasks[t].pc = "r_store"
               => /\ redis_books'[tasks[t].user] =
                         [data |-> tasks[t].lst, ttl |-> cache_ttl]
                  /\ tasks'[t].resp = Ok
                  /\ tasks'[t].lst = tasks[t].lst]_vars

(* C22 witness: a manual refresh of a registered identity has fetched a    *)
(* list while a different snapshot, stored earlier and not yet expired, is *)
(* in the cache.                                                           *)
C22_Witness ==
    \E t \in Tasks :
        /\ tasks[t].op = "refresh_user_feed"
        /\ tasks[t].pc = "r_store"
        /\ tasks[t].user \in Registered
        /\ Snapshot(tasks[t].user) # None
        /\ Snapshot(tasks[t].user) # tasks[t].lst
        /\ redis_books[tasks[t].user].ttl < cache_ttl

(* C23: whatever Cache methods have been called, every registration entry  *)
(* (a key user:<username>, what get_all_users lists) has no expiry.        *)
C23_RegistrationHasNoExpiry ==
    \A u \in Usernames :
        redis_users[u].data # None => redis_users[u].ttl = NoExpiry

(* C24: whenever no add_user and no remove_user is under way, the          *)
(* usernames reported as registered (the keys of `users`, which the user   *)
(* listing and the sweep enumerate) are those with a registration entry in *)
(* the cache store.                                                        *)
C24_RegisteredIsStoreDerived ==
    (\A t \in Tasks :
         tasks[t].op \in {"add_user", "remove_user"} => tasks[t].pc = "done")
    => Registered = get_all_users(redis_up, redis_users)

RatingOf(r) ==
    IF r.t = "number" \/ (r.t = "text" /\ r.text \in NumericTexts)
    THEN Some(r.num)
    ELSE None

(* C26: when the page holds a non-empty collection that the parse has      *)
(* taken, the result has one Book per entry, and each Book's               *)
(* average_rating is absent exactly when the entry's rating is missing or  *)
(* not numeric, and is the number otherwise (zero giving 0).               *)
C26_RatingAbsentIffNotNumeric ==
    ( /\ probe.stage = "parsed"
      /\ probe.books_list # None
      /\ probe.books_list # Some(<<>>) )
    => /\ probe.result # None
       /\ Len(probe.result[1]) = Len(probe.books_list[1])
       /\ \A i \in DOMAIN probe.books_list[1] :
             probe.result[1][i].average_rating =
                 RatingOf(probe.books_list[1][i].rating)

(* The non-empty collection at a path, None when there is none.            *)
CollectionAt(o) ==
    IF letterbooks_of(o) # None /\ letterbooks_of(o) # Some(<<>>)
    THEN letterbooks_of(o) ELSE None

(* C27: when a non-empty collection is at props.letterbooks or at the top  *)
(* level letterbooks, the parse takes it: the first path's when there is   *)
(* one, else the second path's.                                            *)
C27_BothPathsProbed ==
    ( /\ probe.stage = "parsed"
      /\ CollectionAt(probe.data.props) # None
           \/ CollectionAt(probe.data.top) # None )
    => probe.books_list =
           IF CollectionAt(probe.data.props) # None
           THEN CollectionAt(probe.data.props)
           ELSE CollectionAt(probe.data.top)

(* C28: a feed read of a registered identity that has the identity's       *)
(* non-empty book list at hand (from the snapshot the add_user stored, or  *)
(* from a fetch) ends with 200 and the RSS document.                       *)
C28_FeedOfAddedUserIsRss ==
    \A t \in Tasks :
        ( /\ tasks[t].op = "get_user_feed"
          /\ tasks[t].pc = "done"
          /\ tasks[t].lst # None
          /\ tasks[t].lst # Some(<<>>) )
        => tasks[t].resp = Ok

(* The entries for u in a listing.                                         *)
EntriesFor(listing, u) ==
    {i \in DOMAIN listing : listing[i].username = u}

Listed(us, u) ==
    EntriesFor(list_users(us), u) # {} \/ EntriesFor(list_feeds(us), u) # {}

(* C29: the user listing and the feeds listing never hold more than one    *)
(* entry for an identity, each entry has feed_url /feed/X, both listings   *)
(* hold the same identities, an identity comes into them only in a step of *)
(* an add_user for it (one that was never added, or was removed, does not  *)
(* appear), and it leaves them only by a remove_user for it.               *)
C29_ListingsFollowAddRemove ==
    [][\A u \in Usernames :
         /\ \A listing \in {list_users(users'), list_feeds(users')} :
               /\ Cardinality(EntriesFor(listing, u)) <= 1
               /\ \A i \in EntriesFor(listing, u) :
                     listing[i].feed_url = feed_url(u)
         /\ (Listed(users', u) /\ ~Listed(users, u))
            => \E t \in Tasks :
                   /\ tasks[t].op = "add_user"
                   /\ tasks[t].user = u
                   /\ Steps(t)
         /\ EntriesFor(list_users(users'), u) # {}
               <=> EntriesFor(list_feeds(users'), u) # {}
         /\ (Listed(users, u) /\ ~Listed(users', u))
            => \E t \in Tasks :
                   /\ tasks[t].pc = "idle"
                   /\ tasks'[t].op = "remove_user"
                   /\ tasks'[t].user = u]_vars

(* No task other than t is working on u.                                   *)
AloneOn(t, u) ==
    \A o \in Tasks \ {t} :
        tasks[o].user = u => tasks[o].pc \in {"idle", "done"}

(* C30: when a refresh of X writes its list (it is not cancelled at that   *)
(* await) while the store is reachable and no other task works on X, the   *)
(* snapshot of X is then that list with the configured TTL, and the list   *)
(* goes back to the caller unchanged.                                      *)
C30_StoredSnapshotIsReturnedList ==
    [][\A t \in Tasks :
         ( /\ tasks[t].pc = "r_store"
           /\ Steps(t)
           /\ tasks'[t].resp # Cancelled
           /\ redis_up
           /\ AloneOn(t, tasks[t].user) )
         => /\ redis_books'[tasks[t].user] =
                   [data |-> tasks[t].lst, ttl |-> cache_ttl]
            /\ tasks[t].op \notin SweepOps
               => /\ tasks'[t].pc = "done"
                  /\ tasks'[t].lst = tasks[t].lst
                  /\ tasks'[t].src = "fetch"]_vars

(* C30 witness: an add_user has ended after its refresh stored the list it *)
(* fetched, with no other task on the identity: the snapshot is that list  *)
(* with the whole TTL.                                                     *)
C30_Witness ==
    \E t \in Tasks :
        /\ tasks[t].op = "add_user"
        /\ tasks[t].pc = "done"
        /\ tasks[t].resp = Ok
        /\ tasks[t].src = "fetch"
        /\ Len(tasks[t].lst[1]) = MaxBooks
        /\ AloneOn(t, tasks[t].user)
        /\ redis_books[tasks[t].user] =
               [data |-> tasks[t].lst, ttl |-> cache_ttl]

(* C31: when the parse of a page returns a list, it has one Book per entry *)
(* of the collection, in the collection's order; when an entry of the      *)
(* collection cannot be converted (its rating makes float raise), the      *)
(* parse returns no list at all.                                           *)
C31_OneBookPerEntryOrNone ==
    probe.stage = "parsed" =>
        /\ probe.result # None =>
              /\ probe.books_list # None
              /\ Len(probe.result[1]) = Len(probe.books_list[1])
              /\ \A i \in DOMAIN probe.result[1] :
                    probe.result[1][i].id = probe.books_list[1][i].id
        /\ ( /\ probe.books_list # None
             /\ \E i \in DOMAIN probe.books_list[1] :
                   average_rating(probe.books_list[1][i].rating).raised )
           => probe.result = None

(* C31 witness: a collection of two entries with different ids, the larger *)
(* id first, has been parsed into a list.                                  *)
C31_Witness ==
    /\ probe.stage = "parsed"
    /\ probe.result # None
    /\ Len(probe.result[1]) = 2
    /\ probe.result[1][1].id > probe.result[1][2].id
    /\ probe.books_list[1][1].id > probe.books_list[1][2].id

(* This step is a call of Cache.clear_cache.                               *)
ClearCacheStep == probe'.calls # probe.calls

C33_LastStartedFetchWins ==
    \A t1, t2 \in Tasks :
        ( /\ probe.stage = "race"
          /\ probe.order = <<t1, t2>>
          /\ \A t \in {t1, t2} :
                /\ tasks[t].pc = "done"
                /\ tasks[t].resp = Ok
                /\ tasks[t].src = "fetch" )
        => Snapshot(ProbeUser) = tasks[t2].lst

(* C34: a sweep starts on the usernames registered at that moment, in      *)
(* order; from then on it stays on the username at hand until that attempt *)
(* has ended, then goes to the next of the usernames left, never back and  *)
(* never to one that was not on the list, and it ends only when none is    *)
(* left, whatever happens to the registered set meanwhile.                 *)
C34_SweepVisitsEachOnce ==
    [][\A t \in Tasks :
         (tasks'[t].op \in SweepOps /\ Steps(t)) =>
            /\ ( \/ tasks[t].pc = "background"
                 \/ tasks[t].pc = "idle" /\ tasks'[t].op = "job" )
               => IF users = <<>> THEN tasks'[t].pc = "done"
                  ELSE /\ tasks'[t].user = Head(users)
                       /\ tasks'[t].queue = Tail(users)
                       /\ tasks'[t].pc \in {"r_info", "r_fetch"}
            /\ tasks[t].pc \in {"r_info", "r_fetch", "r_store", "sleep"}
               => \/ /\ tasks'[t].user = tasks[t].user
                     /\ tasks'[t].queue = tasks[t].queue
                     /\ tasks[t].pc # "sleep"
                     /\ tasks'[t].pc \in {"r_fetch", "r_store", "sleep"}
                  \/ /\ tasks[t].queue # <<>>
                     /\ tasks'[t].user = Head(tasks[t].queue)
                     /\ tasks'[t].queue = Tail(tasks[t].queue)
                     /\ tasks'[t].pc \in {"r_info", "r_fetch"}
                  \/ /\ tasks[t].queue = <<>>
                     /\ tasks'[t].pc = "done"]_vars

====
